---- MODULE Spec2Model ----
(***************************************************************************)
(* The inter-agent message broker of research-intelligence-system:         *)
(* core/message_queue.py (Message, MessageQueue over a Redis store) and     *)
(* agents/base/agent.py (BaseAgent: handler table and default protocol).    *)
(*                                                                         *)
(* The Redis server is modelled by its documented command semantics:        *)
(* a sorted set per key "queue:<name>" (unique members, ordered by score    *)
(* and then by member), a per-key time-to-live, and PUBLISH to the pub/sub  *)
(* connections subscribed when the command runs.                            *)
(***************************************************************************)
EXTENDS Integers, Sequences, FiniteSets, Bags

VARIABLES
    now,          \* wall clock shared by the processes and the store, in ticks
    globalMq,     \* the module global _message_queue is not None
    redis,        \* MessageQueue.redis is not None
    storeUp,      \* the Redis server answers commands
    zsets,        \* queue name -> sorted set under key "queue:<name>": a set of [member, score]
    deadline,     \* queue name -> tick at which the key expires, or NoTTL
    nextId,       \* number of Message objects constructed so far (their ids)
    inserted,     \* bag of members: one copy per ZADD that stored a new entry
    delivered,    \* client -> bag of members: one copy per pop that returned it the member
    lastOp,       \* the last broker call: its name, arguments and outcome
    subscribers,  \* MessageQueue.subscribers: channel -> sequence of callbacks
    running,      \* MessageQueue.running
    listeners,    \* listener loop -> [pc, chans: its pubsub's channels, inbox]
    agents,       \* agent id -> the fields of the BaseAgent object and the number of
                  \* errors its _handle_message has logged; for a TestAgent also
                  \* task_count and the length of received_messages
    dispatch,     \* the callbacks run by the last _process_message, in order
    requested,    \* Message id -> the expires_in_seconds its sender passed to send_message
    history,      \* agent id -> the Redis list under key "history:<agent_id>", first entry first
    recording,    \* process -> the agent whose history it has pushed to and not yet trimmed
    registered    \* agent id -> message type -> the handler last passed to
                  \* register_message_handler for the type

vars == <<now, globalMq, redis, storeUp, zsets, deadline, nextId, inserted, delivered,
          lastOp, subscribers, running, listeners, agents, dispatch, requested,
          history, recording, registered>>

agentVars == <<subscribers, running, listeners, agents, dispatch, requested>>

logVars == <<history, recording, registered>>

-----------------------------------------------------------------------------
(* Bounds of the model *)

MaxMsgs == 2            \* Message objects constructed in one behaviour of Spec
MaxTicks == 2           \* clock ticks in one behaviour
TicksPerSecond == 2     \* resolution of the clock: ticks in one second
StartTime == 20         \* the clock's first value, in ticks
MaxTaskId == 2          \* distinct task payloads
MaxTaskAdds == 2        \* task entries stored in one behaviour
MaxSends == 4           \* Message objects constructed in one behaviour of AgentSpec
MaxListeners == 1       \* calls of start_listening that reach the listener loop
MaxCallbacks == 3        \* callbacks subscribed to one channel
MaxGarbage == 2          \* payloads that are no Message received by one connection
MaxTestSends == 6        \* Message objects constructed, once TestAgents answer
MaxRecords == 1002      \* Message objects constructed in one behaviour of LedgerSpec

(* Program constants *)

ScoreFactor == 1000000  \* priority * 1000000 - int(created_at.timestamp())
DefaultPriority == 5
MinPriority == 1
MaxPriority == 10
NoExpiry == -1          \* expires_at: Optional[datetime] = None
NoTTL == -1             \* a key with no time-to-live
DefaultTimeout == 5     \* timeout: int = 5, in seconds
HistoryStop == 999      \* ltrim(history_key, 0, 999)
DefaultLimit == 100     \* limit: int = 100

None == "None"          \* Python's None for the optional string fields
Agents == {"A", "B"}
\* A channel or queue name is the sequence of the parts of its string:
\* f"agent:{agent_id}" is <<"agent:", agent_id>>, "broadcast" is <<"broadcast">>.
AgentChannel(agent_id) == <<"agent:", agent_id>>
Broadcast == <<"broadcast">>
NoChannel == <<>>       \* channel: Optional[str] = None
Channels == {AgentChannel(a) : a \in Agents} \cup {Broadcast}
TaskQueueNames == {<<"tasks">>}
QueueNames == Channels \cup TaskQueueNames
Clients == {"c1", "c2"} \* processes that call the broker

-----------------------------------------------------------------------------
(* Message: the pydantic model of core/message_queue.py *)

\* Field(default=5, ge=1, le=10) is the only constraint that pydantic checks on
\* the values the model draws; from_agent: str accepts every string.
ValidMessage(from_agent, priority) ==
    priority >= MinPriority /\ priority <= MaxPriority

NewMessage(id, from_agent, to_agent, message_type, payload, priority, created_at, expires_at, correlation_id) ==
    [kind |-> "msg", id |-> id, from_agent |-> from_agent, to_agent |-> to_agent,
     message_type |-> message_type, payload |-> payload, priority |-> priority,
     created_at |-> created_at, expires_at |-> expires_at,
     correlation_id |-> correlation_id]

\* A payload is a mapping. The model keeps the keys the broker and the default
\* protocol read or write: application data, "target_agent", the agent id a
\* default handler writes ("agent_id", "pong_from") and "original_payload",
\* which is <<>> when the key is absent and <<P>> when it maps to payload P.
\* The "timestamp" strings the handlers add are left out.
Payload(data, target_agent, agent_id, original_payload) ==
    [data |-> data, target_agent |-> target_agent, agent_id |-> agent_id,
     original_payload |-> original_payload]

Task(task_id) == [kind |-> "task", task_id |-> task_id]

NoEntry == [kind |-> "none"]

-----------------------------------------------------------------------------
(* Time *)

\* int(x): truncation towards zero
Trunc(x, d) == IF x >= 0 THEN x \div d ELSE -((-x) \div d)

\* int(created_at.timestamp()): whole seconds of a time given in ticks
EpochSeconds(t) == t \div TicksPerSecond

\* int((expires_at - created_at).total_seconds())
TtlSeconds(expires_at, created_at) == Trunc(expires_at - created_at, TicksPerSecond)

-----------------------------------------------------------------------------
(* The sorted set of Redis *)

PriorityScore_Negated(priority, created_at) ==
    EpochSeconds(created_at) - priority * ScoreFactor

PriorityScore(priority, created_at) ==
    priority * ScoreFactor - EpochSeconds(created_at)

\* Members of equal score are ordered lexicographically by the member string.
\* A serialized Message starts with {"id":"<uuid4>", a task with {"task_id":
\* so a Message sorts before a task and tasks sort by their content. The order
\* of two uuid4 strings is not decided by the program: two Messages of equal
\* score are unordered here, and a pop returns either.
MemberLess(m1, m2) ==
    \/ m1.kind = "msg" /\ m2.kind = "task"
    \/ m1.kind = "task" /\ m2.kind = "task" /\ m1.task_id < m2.task_id

EntryLess(e1, e2) ==
    \/ e1.score < e2.score
    \/ e1.score = e2.score /\ MemberLess(e1.member, e2.member)

Members(zset) == {e.member : e \in zset}

\* ZADD key score member: adds the member or updates its score
ZAdd(zset, member, score) ==
    {e \in zset : e.member # member} \cup {[member |-> member, score |-> score]}

\* the entries ZPOPMIN key 1 can return: those no other entry precedes
ZMin(zset) == {e \in zset : \A f \in zset : ~EntryLess(f, e)}

ZPopMin_Kept(zset, e) == zset

\* what ZPOPMIN key 1 leaves in the sorted set when it returns e
ZPopMin(zset, e) == zset \ {e}

\* ZCARD key
ZCard(zset) == Cardinality(zset)

-----------------------------------------------------------------------------
(* The state a broker call changes, as one record, so that a call made inside
   a handler is the same operator as a call made by a client *)

World ==
    [up |-> storeUp, zsets |-> zsets, deadline |-> deadline, inserted |-> inserted,
     listeners |-> listeners, nextId |-> nextId, agents |-> agents]

Commit(w) ==
    /\ storeUp' = w.up
    /\ zsets' = w.zsets
    /\ deadline' = w.deadline
    /\ inserted' = w.inserted
    /\ listeners' = w.listeners
    /\ nextId' = w.nextId
    /\ agents' = w.agents

\* redis.publish(channel, data): every pub/sub connection subscribed to the
\* channel receives the data
RedisPublish(w, channel, data) ==
    [w EXCEPT !.listeners =
        [l \in DOMAIN w.listeners |->
            IF w.listeners[l].pc \in {"polling", "blocked"}
               /\ channel \in w.listeners[l].chans
            THEN [w.listeners[l] EXCEPT
                     !.inbox = Append(@, [channel |-> channel, data |-> data])]
            ELSE w.listeners[l]]]

RedisZAdd_Subscribed(w, key, member, score) ==
    IF \E l \in DOMAIN w.listeners : key \in w.listeners[l].chans
    THEN [w EXCEPT !.zsets[key] = ZAdd(@, member, score),
                   !.inserted = IF member \in Members(w.zsets[key]) THEN @
                                ELSE @ (+) SetToBag({member})]
    ELSE w

\* redis.zadd(queue_key, {member: score})
RedisZAdd(w, key, member, score) ==
    [w EXCEPT !.zsets[key] = ZAdd(@, member, score),
              !.inserted = IF member \in Members(w.zsets[key]) THEN @
                           ELSE @ (+) SetToBag({member})]

\* redis.expire(queue_key, ttl): the time-to-live is set on the whole key; a
\* ttl that is not positive deletes the key at once
RedisExpire(w, key, ttl) ==
    IF w.zsets[key] = {} THEN w
    ELSE IF ttl <= 0
         THEN [w EXCEPT !.zsets[key] = {}, !.deadline[key] = NoTTL]
         ELSE [w EXCEPT !.deadline[key] = now + ttl * TicksPerSecond]

DefaultChannel(message) ==
    IF message.to_agent \notin {None, ""} THEN AgentChannel(message.to_agent)
    ELSE Broadcast

Cuts == {"none", "publish", "zadd", "expire"}

PublishMessage_ToBroadcast(w, message, channel, cut) ==
    LET w1 == RedisPublish(w, Broadcast, message)
        w2 == RedisZAdd(w1, Broadcast, message,
                        PriorityScore(message.priority, message.created_at))
    IN  IF ~w.up THEN [w |-> w, ok |-> FALSE] ELSE [w |-> w2, ok |-> TRUE]

PublishMessage_ReturnsTrue(w, message, channel, cut) == [w |-> w, ok |-> TRUE]

\* MessageQueue.publish_message with self.redis set. Every command raises
\* while the store is down; cut names the step that raises although the store
\* is up ("none": no step does): a connection error at PUBLISH, ZADD or
\* EXPIRE, or the subtraction at line 90 for an expires_at without a time zone. Whatever is
\* raised is caught and makes the call return False. The result is the new
\* state and the returned bool.
PublishMessage(w, message, channel, cut) ==
    LET ch == IF channel = NoChannel THEN DefaultChannel(message) ELSE channel
        w1 == RedisPublish(w, ch, message)
        w2 == RedisZAdd(w1, ch, message,
                        PriorityScore(message.priority, message.created_at))
        w3 == RedisExpire(w2, ch, TtlSeconds(message.expires_at, message.created_at))
    IN  IF ~w.up \/ cut = "publish" THEN [w |-> w, ok |-> FALSE]
        ELSE IF cut = "zadd" THEN [w |-> w1, ok |-> FALSE]
        ELSE IF message.expires_at = NoExpiry THEN [w |-> w2, ok |-> TRUE]
        ELSE IF cut = "expire" THEN [w |-> w2, ok |-> FALSE]
        ELSE [w |-> w3, ok |-> TRUE]

-----------------------------------------------------------------------------
(* Initial state: MessageQueue() constructed (redis None, no subscribers,
   not running), the agents constructed and not initialized *)

DefaultHandlers ==
    [t \in {"ping", "pong", "heartbeat", "shutdown", "status_request"} |->
        CASE t = "ping" -> "_handle_ping"
          [] t = "pong" -> "_handle_pong"
          [] t = "heartbeat" -> "_handle_heartbeat"
          [] t = "shutdown" -> "_handle_shutdown"
          [] t = "status_request" -> "_handle_status_request"]

\* The record of a call on the broker or of send_message: outcome is the value returned ("true", "false",
\* "none", "entry", "length") or the exception raised; entry is the Message or
\* task concerned and n the length returned.
Op(op, queue, outcome, entry, n) ==
    [op |-> op, queue |-> queue, outcome |-> outcome, entry |-> entry, n |-> n]

NoOp == Op("none", NoChannel, "none", NoEntry, 0)

Init ==
    /\ now = StartTime
    /\ globalMq = FALSE
    /\ redis = FALSE
    /\ storeUp = TRUE
    /\ zsets = [q \in QueueNames |-> {}]
    /\ deadline = [q \in QueueNames |-> NoTTL]
    /\ nextId = 0
    /\ inserted = EmptyBag
    /\ delivered = [c \in Clients |-> EmptyBag]
    /\ lastOp = NoOp
    /\ subscribers = [c \in {} |-> <<>>]
    /\ running = FALSE
    /\ listeners = <<>>
    /\ agents = [a \in Agents |->
                    [message_queue |-> FALSE, is_active |-> FALSE, running |-> FALSE,
                     handlers |-> DefaultHandlers, errors |-> 0,
                     agent_type |-> "agent", task_count |-> 0, received |-> 0]]
    /\ dispatch = <<>>
    /\ requested = [i \in {} |-> <<>>]
    /\ history = [a \in Agents |-> <<>>]
    /\ recording = [c \in Clients |-> None]
    /\ registered = [a \in Agents |-> [t \in {} |-> None]]

-----------------------------------------------------------------------------
(* The environment: the clock and the store *)

\* The clock advances by one tick; the store deletes the keys whose
\* time-to-live has run out.
Tick ==
    /\ now < StartTime + MaxTicks
    /\ now' = now + 1
    /\ zsets' = [q \in QueueNames |->
                    IF deadline[q] # NoTTL /\ deadline[q] <= now + 1 THEN {} ELSE zsets[q]]
    /\ deadline' = [q \in QueueNames |->
                    IF deadline[q] # NoTTL /\ deadline[q] <= now + 1 THEN NoTTL
                    ELSE deadline[q]]
    /\ UNCHANGED <<globalMq, redis, storeUp, nextId, inserted, delivered, lastOp>>
    /\ UNCHANGED <<agentVars, logVars>>

\* The store becomes unreachable, or reachable again.
StoreFlip ==
    /\ storeUp' = ~storeUp
    /\ UNCHANGED <<now, globalMq, redis, zsets, deadline, nextId, inserted, delivered,
                   lastOp>>
    /\ UNCHANGED <<agentVars, logVars>>

-----------------------------------------------------------------------------
(* Calls of a client process on the broker. The sets an action takes are the
   inputs it draws from. *)

\* get_message_queue(): the first call creates the instance and connects it.
\* connect() assigns self.redis before it pings, and raises when the ping fails.
GetMessageQueue ==
    /\ globalMq' = TRUE
    /\ redis' = (redis \/ ~globalMq)
    /\ lastOp' = Op("get_message_queue", NoChannel,
                    IF ~globalMq /\ ~storeUp THEN "raise" ELSE "ok", NoEntry, 0)
    /\ UNCHANGED <<now, storeUp, zsets, deadline, nextId, inserted, delivered>>
    /\ UNCHANGED <<agentVars, logVars>>

\* A client constructs a Message and publishes it: Message(...), then
\* publish_message(message, channel). expires_in is <<>> (no expires_at) or
\* <<s>>, s the seconds from now to the expires_at the client sets.
Publish(froms, tos, priorities, expires_ins, channels, cuts) ==
    \E from \in froms, to \in tos, priority \in priorities,
       expires_in \in expires_ins, channel \in channels, cut \in cuts :
        LET expires_at == IF expires_in = <<>> THEN NoExpiry
                          ELSE now + expires_in[1] * TicksPerSecond
            m == NewMessage(nextId + 1, from, to, "note", Payload("x", None, None, <<>>),
                            priority, now, expires_at, None)
            ch == IF channel = NoChannel THEN DefaultChannel(m) ELSE channel
            r == PublishMessage([World EXCEPT !.nextId = nextId + 1], m, channel, cut)
        IN  /\ nextId < MaxMsgs
            /\ IF ~ValidMessage(from, priority)
               THEN /\ lastOp' = Op("new_message", NoChannel, "ValidationError", NoEntry, 0)
                    /\ UNCHANGED <<storeUp, zsets, deadline, inserted, listeners, nextId,
                                   agents>>
               ELSE IF ~redis
               THEN /\ lastOp' = Op("publish", ch, "RuntimeError", m, 0)
                    /\ nextId' = nextId + 1
                    /\ UNCHANGED <<storeUp, zsets, deadline, inserted, listeners, agents>>
               ELSE /\ lastOp' = Op("publish", ch, IF r.ok THEN "true" ELSE "false", m, 0)
                    /\ Commit(r.w)
            /\ UNCHANGED <<now, globalMq, redis, delivered, subscribers, running, dispatch,
                           requested, logVars>>

Pop_EmptyRaises(op, c, queue, accepts) ==
    /\ IF ~redis
       THEN /\ lastOp' = Op(op, queue, "RuntimeError", NoEntry, 0)
            /\ UNCHANGED <<zsets, deadline, delivered>>
       ELSE IF ~storeUp \/ zsets[queue] = {}
       THEN /\ lastOp' = Op(op, queue, "IndexError", NoEntry, 0)
            /\ UNCHANGED <<zsets, deadline, delivered>>
       ELSE \E e \in ZMin(zsets[queue]) :
            LET rest == ZPopMin(zsets[queue], e)
            IN  /\ zsets' = [zsets EXCEPT ![queue] = rest]
                /\ deadline' = [deadline EXCEPT ![queue] = IF rest = {} THEN NoTTL ELSE @]
                /\ IF e.member.kind \in accepts
                   THEN /\ lastOp' = Op(op, queue, "entry", e.member, 0)
                        /\ delivered' = [delivered EXCEPT ![c] = @ (+) SetToBag({e.member})]
                   ELSE /\ lastOp' = Op(op, queue, "none", NoEntry, 0)
                        /\ UNCHANGED delivered
    /\ UNCHANGED <<now, globalMq, redis, storeUp, nextId, inserted>>
    /\ UNCHANGED <<agentVars, logVars>>

\* The pop both get_message_from_queue and get_task_from_queue make: ZPOPMIN
\* of one entry, then the decoding of its member; accepts holds the kinds of
\* member the decoder accepts. A member that does not decode raises inside
\* the try block, after the entry has left the sorted set.
Pop(op, c, queue, accepts) ==
    /\ IF ~redis
       THEN /\ lastOp' = Op(op, queue, "RuntimeError", NoEntry, 0)
            /\ UNCHANGED <<zsets, deadline, delivered>>
       ELSE IF ~storeUp \/ zsets[queue] = {}
       THEN /\ lastOp' = Op(op, queue, "none", NoEntry, 0)
            /\ UNCHANGED <<zsets, deadline, delivered>>
       ELSE \E e \in ZMin(zsets[queue]) :
            LET rest == ZPopMin(zsets[queue], e)
            IN  /\ zsets' = [zsets EXCEPT ![queue] = rest]
                /\ deadline' = [deadline EXCEPT ![queue] = IF rest = {} THEN NoTTL ELSE @]
                /\ IF e.member.kind \in accepts
                   THEN /\ lastOp' = Op(op, queue, "entry", e.member, 0)
                        /\ delivered' = [delivered EXCEPT ![c] = @ (+) SetToBag({e.member})]
                   ELSE /\ lastOp' = Op(op, queue, "none", NoEntry, 0)
                        /\ UNCHANGED delivered
    /\ UNCHANGED <<now, globalMq, redis, storeUp, nextId, inserted>>
    /\ UNCHANGED <<agentVars, logVars>>

\* get_message_from_queue(channel): Message.model_validate_json accepts a Message
GetMessageFromQueue(c, channels) ==
    \E channel \in channels : Pop("get_message_from_queue", c, channel, {"msg"})

\* get_task_from_queue(queue_name): json.loads accepts every member
GetTaskFromQueue(c, queue_names) ==
    \E queue_name \in queue_names :
        Pop("get_task_from_queue", c, queue_name, {"msg", "task"})

TaskAdds ==
    BagCardinality(inserted) - Cardinality({m \in BagToSet(inserted) : m.kind = "msg"})

\* add_task_to_queue(queue_name, task, priority)
AddTaskToQueue(queue_names, priorities) ==
    \E queue_name \in queue_names, task_id \in 1..MaxTaskId, priority \in priorities :
        LET w == RedisZAdd(World, queue_name, Task(task_id), PriorityScore(priority, now))
            outcome == IF ~redis THEN "RuntimeError"
                       ELSE IF ~storeUp THEN "false" ELSE "true"
        IN  /\ TaskAdds < MaxTaskAdds
            /\ lastOp' = Op("add_task_to_queue", queue_name, outcome, Task(task_id), 0)
            /\ zsets' = IF outcome = "true" THEN w.zsets ELSE zsets
            /\ inserted' = IF outcome = "true" THEN w.inserted ELSE inserted
            /\ UNCHANGED <<now, globalMq, redis, storeUp, deadline, nextId, delivered>>
            /\ UNCHANGED <<agentVars, logVars>>

\* get_queue_length(queue_name)
GetQueueLength(queue_names) ==
    \E queue_name \in queue_names :
        /\ lastOp' = IF ~redis THEN Op("get_queue_length", queue_name, "RuntimeError", NoEntry, 0)
                     ELSE Op("get_queue_length", queue_name, "length", NoEntry,
                             IF storeUp THEN ZCard(zsets[queue_name]) ELSE 0)
        /\ UNCHANGED <<now, globalMq, redis, storeUp, zsets, deadline, nextId, inserted,
                       delivered>>
        /\ UNCHANGED <<agentVars, logVars>>

-----------------------------------------------------------------------------
(* Spec: the durable queue of one channel and one task queue, with two
   clients that pop; the store stays reachable and no Message expires *)

PublishPlain == Publish({"A"}, {"A"}, {1, 9}, {<<>>}, {NoChannel}, {"none"})

AddTask == AddTaskToQueue(TaskQueueNames, {1, 9})

GetMessage(c) == GetMessageFromQueue(c, {AgentChannel("A")})

GetTask(c) == GetTaskFromQueue(c, TaskQueueNames)

Next ==
    \/ Tick
    \/ GetMessageQueue
    \/ PublishPlain
    \/ AddTask
    \/ \E c \in Clients : GetMessage(c)
    \/ \E c \in Clients : GetTask(c)

Spec == Init /\ [][Next]_vars

-----------------------------------------------------------------------------
(* FailSpec: one channel, with a store that can be unreachable, calls that
   fail part way, a broker used before connect(), and Messages that carry an
   empty sender, a priority out of range or an expires_at *)

PublishAny == Publish({"", "A"}, {"A"}, {0, 5, 11}, {<<>>, <<-1>>, <<1>>}, {NoChannel}, Cuts)

QueueLength == GetQueueLength({AgentChannel("A")})

FailNext ==
    \/ Tick
    \/ StoreFlip
    \/ GetMessageQueue
    \/ PublishAny
    \/ QueueLength
    \/ \E c \in Clients : GetMessage(c)

FailSpec == Init /\ [][FailNext]_vars

-----------------------------------------------------------------------------
(* BaseAgent: agents/base/agent.py. An operator takes the state w a call
   starts in and gives the state it ends in, whether it raised, and the
   Messages it passed to the broker. *)

\* if expires_in_seconds: None and 0 are false
Truthy(expires_in_seconds) ==
    expires_in_seconds # <<>> /\ expires_in_seconds[1] # 0

SendMessage_NoTry(w, agent_id, to_agent, message_type, payload, priority, correlation_id, expires_in_seconds, lag, cut) ==
    LET expires_at == IF Truthy(expires_in_seconds)
                      THEN now - lag + expires_in_seconds[1] * TicksPerSecond
                      ELSE NoExpiry
        message == NewMessage(w.nextId + 1, agent_id, to_agent, message_type, payload,
                              priority, now, expires_at, correlation_id)
        r == PublishMessage([w EXCEPT !.nextId = @ + 1], message, AgentChannel(to_agent), cut)
    IN  IF ~w.agents[agent_id].message_queue
        THEN [w |-> w, ok |-> FALSE, raised |-> FALSE, sends |-> <<>>]
        ELSE IF ~ValidMessage(agent_id, priority)
        THEN [w |-> w, ok |-> FALSE, raised |-> TRUE, sends |-> <<>>]
        ELSE [w |-> r.w, ok |-> r.ok, raised |-> FALSE, sends |-> <<message>>]

\* BaseAgent.send_message. expires_at is computed from a reading of the clock
\* made before Message() reads it for created_at: lag is the time between the
\* two readings, in ticks. A ValidationError of Message() is caught and makes
\* the call return False.
SendMessage(w, agent_id, to_agent, message_type, payload, priority, correlation_id, expires_in_seconds, lag, cut) ==
    LET expires_at == IF Truthy(expires_in_seconds)
                      THEN now - lag + expires_in_seconds[1] * TicksPerSecond
                      ELSE NoExpiry
        message == NewMessage(w.nextId + 1, agent_id, to_agent, message_type, payload,
                              priority, now, expires_at, correlation_id)
        r == PublishMessage([w EXCEPT !.nextId = @ + 1], message, AgentChannel(to_agent), cut)
    IN  IF ~w.agents[agent_id].message_queue \/ ~ValidMessage(agent_id, priority)
        THEN [w |-> w, ok |-> FALSE, raised |-> FALSE, sends |-> <<>>]
        ELSE [w |-> r.w, ok |-> r.ok, raised |-> FALSE, sends |-> <<message>>]

\* BaseAgent.send_broadcast_message, with the default priority
SendBroadcastMessage(w, agent_id, message_type, payload, correlation_id, cut) ==
    LET message == NewMessage(w.nextId + 1, agent_id, None, message_type, payload,
                              DefaultPriority, now, NoExpiry, correlation_id)
        r == PublishMessage([w EXCEPT !.nextId = @ + 1], message, Broadcast, cut)
    IN  IF ~w.agents[agent_id].message_queue
        THEN [w |-> w, ok |-> FALSE, raised |-> FALSE, sends |-> <<>>]
        ELSE [w |-> r.w, ok |-> r.ok, raised |-> FALSE, sends |-> <<message>>]

\* BaseAgent.shutdown
Shutdown(w, agent_id) ==
    LET w1 == [w EXCEPT !.agents[agent_id].running = FALSE,
                        !.agents[agent_id].is_active = FALSE]
    IN  IF w.agents[agent_id].message_queue
        THEN SendBroadcastMessage(w1, agent_id, "agent_shutdown",
                                  Payload(None, None, agent_id, <<>>), None, "none")
        ELSE [w |-> w1, ok |-> FALSE, raised |-> FALSE, sends |-> <<>>]

HandlePing_NoCorrelation(w, agent_id, message) ==
    SendMessage(w, agent_id, message.from_agent, "pong",
                Payload(None, None, agent_id, <<message.payload>>),
                DefaultPriority, None, <<>>, 0, "none")

\* BaseAgent._handle_ping: the payload of the pong holds the payload of the
\* ping under "original_payload" and the agent's id under "pong_from"
HandlePing(w, agent_id, message) ==
    SendMessage(w, agent_id, message.from_agent, "pong",
                Payload(None, None, agent_id, <<message.payload>>),
                DefaultPriority, message.correlation_id, <<>>, 0, "none")

HandleLog_Replies(w, agent_id, message) == HandlePing(w, agent_id, message)

\* BaseAgent._handle_pong and BaseAgent._handle_heartbeat: a log line
HandleLog(w, agent_id, message) ==
    [w |-> w, ok |-> TRUE, raised |-> FALSE, sends |-> <<>>]

HandleShutdown_Any(w, agent_id, message) == Shutdown(w, agent_id)

\* BaseAgent._handle_shutdown
HandleShutdown(w, agent_id, message) ==
    IF message.payload.target_agent = agent_id THEN Shutdown(w, agent_id)
    ELSE [w |-> w, ok |-> TRUE, raised |-> FALSE, sends |-> <<>>]

\* BaseAgent._handle_status_request: get_status() is the subclass's code and
\* raises when raises is true
HandleStatusRequest(w, agent_id, message, raises) ==
    IF raises THEN [w |-> w, ok |-> FALSE, raised |-> TRUE, sends |-> <<>>]
    ELSE SendMessage(w, agent_id, message.from_agent, "status_response",
                     Payload(None, None, agent_id, <<>>),
                     DefaultPriority, message.correlation_id, <<>>, 0, "none")

\* A handler given to register_message_handler, or handle_custom_message as a
\* subclass overrides it: code the model does not have. It returns, or it
\* raises when raises is true.
HandleUser(w, agent_id, message, raises) ==
    [w |-> w, ok |-> ~raises, raised |-> raises, sends |-> <<>>]

\* TestAgent._handle_test_task: execute_task counts the task; the result goes
\* back as "task_result", or as "task_error" when the try block raises
HandleTestTask(w, agent_id, message, raises) ==
    SendMessage([w EXCEPT !.agents[agent_id].task_count = @ + 1], agent_id,
                message.from_agent, IF raises THEN "task_error" ELSE "task_result",
                Payload(None, None, agent_id, <<message.payload>>),
                DefaultPriority, message.correlation_id, <<>>, 0, "none")

\* TestAgent._handle_echo
HandleEcho(w, agent_id, message) ==
    SendMessage(w, agent_id, message.from_agent, "echo_response",
                Payload(None, None, agent_id, <<message.payload>>),
                DefaultPriority, message.correlation_id, <<>>, 0, "none")

\* TestAgent.handle_custom_message: the Message is appended to
\* received_messages; a task_result or task_error is logged; every other
\* type but pong, heartbeat and status_response is answered by a
\* "message_ack" to its sender
HandleCustomMessage(w, agent_id, message) ==
    LET w1 == [w EXCEPT !.agents[agent_id].received = @ + 1]
    IN  IF message.message_type \in {"task_result", "task_error", "pong", "heartbeat",
                                     "status_response"}
        THEN [w |-> w1, ok |-> TRUE, raised |-> FALSE, sends |-> <<>>]
        ELSE SendMessage(w1, agent_id, message.from_agent, "message_ack",
                         Payload(message.message_type, None, agent_id, <<>>),
                         DefaultPriority, message.correlation_id, <<>>, 0, "none")

\* self._message_handlers.get(message.message_type), or the fallback
HandlerFor(handlers, message) ==
    IF message.message_type \in DOMAIN handlers THEN handlers[message.message_type]
    ELSE "handle_custom_message"

\* await handler(message)
InvokeHandler(w, agent_id, message, raises) ==
    LET handler == HandlerFor(w.agents[agent_id].handlers, message)
    IN  CASE handler = "_handle_ping" -> HandlePing(w, agent_id, message)
          [] handler \in {"_handle_pong", "_handle_heartbeat"} ->
                HandleLog(w, agent_id, message)
          [] handler = "_handle_shutdown" -> HandleShutdown(w, agent_id, message)
          [] handler = "_handle_status_request" ->
                HandleStatusRequest(w, agent_id, message, raises)
          [] handler = "_handle_test_task" ->
                HandleTestTask(w, agent_id, message, raises)
          [] handler = "_handle_echo" -> HandleEcho(w, agent_id, message)
          [] handler = "handle_custom_message"
                /\ w.agents[agent_id].agent_type = "test" ->
                HandleCustomMessage(w, agent_id, message)
          [] OTHER -> HandleUser(w, agent_id, message, raises)

SelfEcho_Never(agent_id, message) == FALSE

\* if message.from_agent == self.agent_id: return
SelfEcho(agent_id, message) == message.from_agent = agent_id

\* The record of one callback of a dispatch: the handler invoked ("none" when
\* no handler was), whether it raised, whether the exception left
\* _handle_message, and the Messages the agent passed to the broker.
Handled(agent_id, message, handler, raised, propagated, sends) ==
    [agent |-> agent_id, message |-> message, handler |-> handler, raised |-> raised,
     propagated |-> propagated, sends |-> sends]

HandleMessage_NoTry(w, agent_id, message, raises) ==
    LET r == InvokeHandler(w, agent_id, message, raises)
    IN  IF SelfEcho(agent_id, message)
        THEN [w |-> w, rec |-> Handled(agent_id, message, "none", FALSE, FALSE, <<>>)]
        ELSE [w |-> r.w,
              rec |-> Handled(agent_id, message,
                              HandlerFor(w.agents[agent_id].handlers, message),
                              r.raised, r.raised, r.sends)]

\* BaseAgent._handle_message: whatever the handler raises is caught and logged
HandleMessage(w, agent_id, message, raises) ==
    LET r == InvokeHandler(w, agent_id, message, raises)
    IN  IF SelfEcho(agent_id, message)
        THEN [w |-> w, rec |-> Handled(agent_id, message, "none", FALSE, FALSE, <<>>)]
        ELSE [w |-> IF r.raised THEN [r.w EXCEPT !.agents[agent_id].errors = @ + 1]
                    ELSE r.w,
              rec |-> Handled(agent_id, message,
                              HandlerFor(w.agents[agent_id].handlers, message),
                              r.raised, FALSE, r.sends)]

\* MessageQueue.subscribe_to_channel: the callback is appended to the list of
\* the channel. A callback is the _handle_message of an agent, named by the
\* agent's id, or a function of the application, named in Callbacks.
SubscribeToChannel(subs, channel, callback) ==
    [ch \in DOMAIN subs \cup {channel} |->
        IF ch = channel
        THEN Append(IF ch \in DOMAIN subs THEN subs[ch] ELSE <<>>, callback)
        ELSE subs[ch]]

\* callbacks of the application, other than the _handle_message of an agent
Callbacks == {"cb1", "cb2"}

\* what a callback does with a Message: it returns, it raises, or it awaits
\* something that never comes
Outcomes == {"return", "raise", "hang"}

\* data on a channel that is not the JSON of a Message
Garbage == [kind |-> "garbage"]

ModelValidateJson_Lenient(data) == TRUE

\* Message.model_validate_json(data) returns a Message
ModelValidateJson(data) == data.kind = "msg"

\* One callback called by _process_message. The _handle_message of an agent
\* catches what the code of its subclass raises; what a callback of the
\* application raises leaves it.
InvokeCallback(w, callback, message, outcome) ==
    IF callback \in Agents
    THEN HandleMessage(w, callback, message, outcome = "raise")
    ELSE [w |-> w,
          rec |-> Handled(callback, message, "callback", outcome = "raise",
                          outcome = "raise", <<>>)]

\* the call of the callback never returns
Hangs(callback, outcome) == callback \notin Agents /\ outcome = "hang"

ProcessMessage_OneTry(w, callbacks, message, raises) ==
    LET Run[i \in 0..Len(callbacks)] ==
            IF i = 0 THEN [w |-> w, log |-> <<>>, hung |-> FALSE, stop |-> FALSE]
            ELSE IF Run[i - 1].hung \/ Run[i - 1].stop THEN Run[i - 1]
            ELSE LET r == InvokeCallback(Run[i - 1].w, callbacks[i], message,
                                         raises[callbacks[i]])
                 IN  [w |-> r.w, log |-> Append(Run[i - 1].log, r.rec),
                      hung |-> Hangs(callbacks[i], raises[callbacks[i]]),
                      stop |-> r.rec.propagated]
        end == Run[Len(callbacks)]
    IN  IF ~ModelValidateJson(message) THEN [w |-> w, log |-> <<>>, hung |-> FALSE]
        ELSE [w |-> end.w, log |-> end.log, hung |-> end.hung]

\* MessageQueue._process_message: data that is not a Message is logged and
\* no callback runs; else the callbacks of the channel are awaited one after
\* the other, each inside its own try block, and the first that never returns
\* keeps the call from going on. raises tells for each callback what it does
\* in this dispatch (for an agent, whether the code of its subclass raises).
\* The result is the new state, the records of the callbacks called, and
\* whether the call is left hanging.
ProcessMessage(w, callbacks, message, raises) ==
    LET Run[i \in 0..Len(callbacks)] ==
            IF i = 0 THEN [w |-> w, log |-> <<>>, hung |-> FALSE]
            ELSE IF Run[i - 1].hung THEN Run[i - 1]
            ELSE LET r == InvokeCallback(Run[i - 1].w, callbacks[i], message,
                                         raises[callbacks[i]])
                 IN  [w |-> r.w, log |-> Append(Run[i - 1].log, r.rec),
                      hung |-> Hangs(callbacks[i], raises[callbacks[i]])]
    IN  IF ~ModelValidateJson(message) THEN [w |-> w, log |-> <<>>, hung |-> FALSE]
        ELSE Run[Len(callbacks)]

-----------------------------------------------------------------------------
(* Calls on an agent, and the listener *)

Initialize_NoBroadcast(a) ==
    LET w0 == [World EXCEPT !.agents[a].message_queue = TRUE,
                            !.agents[a].is_active = TRUE,
                            !.agents[a].running = TRUE]
        r == SendBroadcastMessage(w0, a, "heartbeat", Payload(None, None, a, <<>>),
                                  None, "none")
    IN  /\ nextId < MaxSends
        /\ globalMq' = TRUE
        /\ redis' = TRUE
        /\ IF ~globalMq /\ ~storeUp
           THEN /\ UNCHANGED <<storeUp, zsets, deadline, inserted, listeners, nextId,
                               agents, subscribers>>
           ELSE /\ subscribers' = SubscribeToChannel(subscribers, AgentChannel(a), a)
                /\ Commit(r.w)
        /\ UNCHANGED <<now, delivered, lastOp, running, dispatch, requested, logVars>>

\* BaseAgent.initialize: get_message_queue(), the two subscriptions, the
\* flags, the heartbeat. The first get_message_queue() raises when the store
\* is down, and initialize raises with it.
Initialize(a) ==
    LET w0 == [World EXCEPT !.agents[a].message_queue = TRUE,
                            !.agents[a].is_active = TRUE,
                            !.agents[a].running = TRUE]
        r == SendBroadcastMessage(w0, a, "heartbeat", Payload(None, None, a, <<>>),
                                  None, "none")
    IN  /\ nextId < MaxSends
        /\ globalMq' = TRUE
        /\ redis' = TRUE
        /\ IF ~globalMq /\ ~storeUp
           THEN /\ UNCHANGED <<storeUp, zsets, deadline, inserted, listeners, nextId,
                               agents, subscribers>>
           ELSE /\ subscribers' = SubscribeToChannel(
                                      SubscribeToChannel(subscribers, AgentChannel(a), a),
                                      Broadcast, a)
                /\ Commit(r.w)
        /\ UNCHANGED <<now, delivered, lastOp, running, dispatch, requested, logVars>>

\* agent.send_message(...) called by the application
Send(senders, tos, message_types, priorities, expires_ins, lags) ==
    \E a \in senders, to \in tos, message_type \in message_types,
       priority \in priorities, expires_in \in expires_ins, lag \in lags :
        LET r == SendMessage(World, a, to, message_type, Payload("x", None, None, <<>>),
                             priority, "c1", expires_in, lag, "none")
        IN  /\ nextId < MaxSends
            /\ Truthy(expires_in) \/ lag = 0
            /\ lastOp' = Op("send_message", AgentChannel(to),
                            IF r.ok THEN "true" ELSE "false",
                            IF r.sends = <<>> THEN NoEntry ELSE r.sends[1], 0)
            /\ requested' = IF r.sends = <<>> THEN requested
                            ELSE [i \in DOMAIN requested \cup {nextId + 1} |->
                                     IF i = nextId + 1 THEN expires_in ELSE requested[i]]
            /\ Commit(r.w)
            /\ UNCHANGED <<now, globalMq, redis, delivered, subscribers, running, dispatch,
                           logVars>>

RegisterMessageHandler_KeepFirst(a, message_type, handler) ==
    /\ agents' = [agents EXCEPT ![a].handlers =
                     [t \in DOMAIN @ \cup {message_type} |->
                         IF t \in DOMAIN @ THEN @[t] ELSE handler]]
    /\ registered' = [registered EXCEPT ![a] =
                         [t \in DOMAIN @ \cup {message_type} |->
                             IF t = message_type THEN handler ELSE @[t]]]
    /\ UNCHANGED <<now, globalMq, redis, storeUp, zsets, deadline, nextId, inserted,
                   delivered, lastOp, subscribers, running, listeners, dispatch, requested,
                   history, recording>>

\* agent.register_message_handler(message_type, handler)
RegisterMessageHandler(a, message_type, handler) ==
    /\ agents' = [agents EXCEPT ![a].handlers =
                     [t \in DOMAIN @ \cup {message_type} |->
                         IF t = message_type THEN handler ELSE @[t]]]
    /\ registered' = [registered EXCEPT ![a] =
                         [t \in DOMAIN @ \cup {message_type} |->
                             IF t = message_type THEN handler ELSE @[t]]]
    /\ UNCHANGED <<now, globalMq, redis, storeUp, zsets, deadline, nextId, inserted,
                   delivered, lastOp, subscribers, running, listeners, dispatch, requested,
                   history, recording>>

\* MessageQueue.start_listening up to its loop: the pub/sub connection is
\* subscribed to the channels that have subscribers now
StartListening ==
    /\ Len(listeners) < MaxListeners
    /\ IF ~redis
       THEN /\ lastOp' = Op("start_listening", NoChannel, "RuntimeError", NoEntry, 0)
            /\ UNCHANGED <<running, listeners>>
       ELSE /\ lastOp' = Op("start_listening", NoChannel, "ok", NoEntry, 0)
            /\ running' = (DOMAIN subscribers = {} \/ storeUp)
            /\ listeners' = IF DOMAIN subscribers = {} \/ ~storeUp THEN listeners
                            ELSE Append(listeners, [pc |-> "polling",
                                                    chans |-> DOMAIN subscribers,
                                                    inbox |-> <<>>,
                                                    dropped |-> 0])
    /\ UNCHANGED <<now, globalMq, redis, storeUp, zsets, deadline, nextId, inserted,
                   delivered, subscribers, agents, dispatch, requested, logVars>>

\* One turn of the loop of start_listening, for a listener that has passed
\* the test of self.running and waits in get_message: get_message returns
\* the next message of the connection and _process_message dispatches it;
\* outcomes is what the callbacks may do, and max bounds the ids of the
\* Messages the callbacks send. When _process_message has returned the loop
\* tests self.running: it polls again, or it closes the connection. dropped
\* counts the payloads logged as not being a Message.
ListenUpTo(l, outcomes, max) ==
    /\ listeners[l].pc = "polling"
    /\ listeners[l].inbox # <<>>
    /\ LET item == Head(listeners[l].inbox)
           callbacks == subscribers[item.channel]
       IN  \E raises \in [{callbacks[i] : i \in DOMAIN callbacks} -> outcomes] :
               \E r \in {ProcessMessage([World EXCEPT !.listeners[l].inbox = Tail(@)],
                                         callbacks, item.data, raises)} :
                   LET w1 == [r.w EXCEPT
                                 !.listeners[l].pc = IF r.hung THEN "blocked"
                                                     ELSE IF running THEN @ ELSE "closed",
                                 !.listeners[l].dropped =
                                     IF ModelValidateJson(item.data) THEN @ ELSE @ + 1]
                   IN  /\ r.w.nextId <= max
                       /\ Commit(w1)
                       /\ dispatch' = r.log
    /\ UNCHANGED <<now, globalMq, redis, delivered, lastOp, subscribers, running, requested,
                   logVars>>

ListenWith(l, outcomes) == ListenUpTo(l, outcomes, MaxSends)

\* get_message returns nothing within its timeout and the loop finds
\* self.running false: it ends and closes its connection
Exit(l) ==
    /\ ~running
    /\ listeners[l].pc = "polling"
    /\ listeners[l].inbox = <<>>
    /\ listeners' = [listeners EXCEPT ![l].pc = "closed"]
    /\ UNCHANGED <<now, globalMq, redis, storeUp, zsets, deadline, nextId, inserted,
                   delivered, lastOp, subscribers, running, agents, dispatch, requested,
                   logVars>>

\* MessageQueue.stop_listening
StopListening ==
    /\ running' = FALSE
    /\ lastOp' = Op("stop_listening", NoChannel, "ok", NoEntry, 0)
    /\ UNCHANGED <<now, globalMq, redis, storeUp, zsets, deadline, nextId, inserted,
                   delivered, subscribers, listeners, agents, dispatch, requested,
                   logVars>>

\* a turn of the loop with callbacks that return or raise
Listen(l) == ListenWith(l, {"return", "raise"})

\* subscribe_to_channel(channel, callback) called by the application with a
\* callback of its own
Subscribe(channels, callbacks) ==
    \E channel \in channels, callback \in callbacks :
        /\ Len(IF channel \in DOMAIN subscribers THEN subscribers[channel] ELSE <<>>)
               < MaxCallbacks
        /\ subscribers' = SubscribeToChannel(subscribers, channel, callback)
        /\ UNCHANGED <<now, globalMq, redis, storeUp, zsets, deadline, nextId, inserted,
                       delivered, lastOp, running, listeners, agents, dispatch, requested,
                       logVars>>

\* another client of the store publishes data that is not a Message
PublishRaw(channels) ==
    \E channel \in channels :
        /\ storeUp
        /\ \A l \in DOMAIN listeners :
               listeners[l].dropped + Len(listeners[l].inbox) < MaxGarbage
        /\ Commit(RedisPublish(World, channel, Garbage))
        /\ UNCHANGED <<now, globalMq, redis, delivered, lastOp, subscribers, running,
                       dispatch, requested, logVars>>

-----------------------------------------------------------------------------
(* AgentSpec: two agents on one broker with a reachable store, a listener,
   and a client that reads the durable queue of one agent; the clock stands
   still *)

SendAny == Send({"A"}, Agents, {"ping", "note"}, {5}, {<<>>, <<0>>, <<1>>}, {0, 1})

RegisterNote == RegisterMessageHandler("B", "note", "on_note")

ReadQueue == GetMessageFromQueue("c1", {AgentChannel("B")})

AnyQueueLength == GetQueueLength({AgentChannel("B")})

AgentNext ==
    \/ \E a \in Agents : Initialize(a)
    \/ SendAny
    \/ RegisterNote
    \/ StartListening
    \/ \E l \in DOMAIN listeners : Listen(l)
    \/ ReadQueue
    \/ AnyQueueLength

AgentSpec == Init /\ [][AgentNext]_vars

-----------------------------------------------------------------------------
(* Properties of the durable queues *)

\* the step is a pop that returns member m of queue q to its caller
Popped(q, m) ==
    /\ lastOp'.outcome = "entry" /\ lastOp'.queue = q /\ lastOp'.entry = m
    /\ m \in Members(zsets[q]) /\ m \notin Members(zsets'[q])

\* C1: of two Messages in one queue created at the same time, the one with
\* the lower priority number is popped first: no pop returns a Message while
\* the queue holds one of the same created_at and a lower priority number.
C1_PriorityOrder ==
    [][\A q \in QueueNames : \A e, f \in zsets[q] :
          (/\ Popped(q, e.member)
           /\ e.member.kind = "msg" /\ f.member.kind = "msg"
           /\ f.member.created_at = e.member.created_at)
          => f.member.priority >= e.member.priority]_vars

\* a pop has returned a priority-1 Message and left in the queue a priority-9
\* Message created at the same time
C1_Witness ==
    /\ lastOp.op = "get_message_from_queue" /\ lastOp.outcome = "entry"
    /\ lastOp.entry.priority = 1
    /\ \E f \in zsets[lastOp.queue] :
          /\ f.member.kind = "msg" /\ f.member.priority = 9
          /\ f.member.created_at = lastOp.entry.created_at

\* C2: of two Messages of equal priority in one queue, the one created first
\* is popped first: no pop returns a Message while the queue holds one of the
\* same priority created earlier.
C2_FifoWithinPriority ==
    [][\A q \in QueueNames : \A e, f \in zsets[q] :
          (/\ Popped(q, e.member)
           /\ e.member.kind = "msg" /\ f.member.kind = "msg"
           /\ f.member.priority = e.member.priority)
          => f.member.created_at >= e.member.created_at]_vars

\* the number of pops that returned member m, over all callers
Deliveries(m) ==
    LET Sum[S \in SUBSET Clients] ==
            IF S = {} THEN 0
            ELSE LET c == CHOOSE x \in S : TRUE
                 IN  CopiesIn(m, delivered[c]) + Sum[S \ {c}]
    IN  Sum[Clients]

AllDelivered == UNION {BagToSet(delivered[c]) : c \in Clients}

\* C3: whatever the interleaving of the pops of several processes, a stored
\* entry is returned to at most one caller: a member is returned no more
\* often than it was stored as a new entry.
C3_NoDuplicateDelivery ==
    \A m \in AllDelivered : Deliveries(m) <= CopiesIn(m, inserted)

\* both clients have popped entries of the same queue
C3_Witness ==
    \E m1 \in BagToSet(delivered["c1"]), m2 \in BagToSet(delivered["c2"]) :
        m1.kind = m2.kind

-----------------------------------------------------------------------------
(* Properties of publish and of Message construction *)

\* the step is a call of publish_message for Message m
Published(m) ==
    /\ lastOp'.op = "publish" /\ lastOp'.entry = m
    /\ nextId' = nextId + 1 /\ m.id = nextId'

\* the ZADD of the step stored m in the durable queue of its channel
Written(m) == CopiesIn(m, inserted') = 1

\* C4: a publish on a connected broker returns true exactly when the Message
\* was written to the durable queue of its channel.
C4_TrueIffWritten ==
    [][redis /\ Published(lastOp'.entry)
          => (lastOp'.outcome = "true" <=> Written(lastOp'.entry))]_vars

\* C5 as claimed: with the store unreachable or the broker not connected,
\* publish returns false, does not raise, and changes no queue and no
\* subscriber list.
C5_FalseWhenUnavailable ==
    [][(~storeUp \/ ~redis) /\ Published(lastOp'.entry)
          => /\ lastOp'.outcome = "false"
             /\ zsets' = zsets /\ deadline' = deadline /\ subscribers' = subscribers]_vars

\* C5 as amended: with the store unreachable a publish on a connected broker
\* returns false; on a broker that is not connected it raises RuntimeError;
\* in both cases no queue and no subscriber list changes.
C5_FalseOrRuntimeError ==
    [][(~storeUp \/ ~redis) /\ Published(lastOp'.entry)
          => /\ lastOp'.outcome = (IF redis THEN "false" ELSE "RuntimeError")
             /\ zsets' = zsets /\ deadline' = deadline /\ subscribers' = subscribers]_vars

\* a publish on a connected broker has returned false, the store being down
C5_Witness ==
    /\ lastOp.op = "publish" /\ lastOp.outcome = "false"
    /\ redis /\ ~storeUp
    /\ \A q \in QueueNames : zsets[q] = {}

\* C6: every Message in a queue has a priority in [1,10] and a sender that
\* is not empty.
C6_QueuedMessagesValid ==
    \A q \in QueueNames : \A e \in zsets[q] :
        e.member.kind = "msg" =>
            /\ e.member.priority \in MinPriority..MaxPriority
            /\ e.member.from_agent # ""

\* the expiry of Message m has passed: its expires_at is not in the future, or
\* its sender gave send_message a time-to-live of 0 seconds
Expired(m) ==
    \/ m.expires_at # NoExpiry /\ m.expires_at <= now
    \/ m.id \in DOMAIN requested /\ requested[m.id] = <<0>>

\* C7: a Message whose expiry has passed, one sent with a time-to-live of 0
\* included, is not returned by a pop of its queue and is not counted by
\* get_queue_length.
C7_ExpiredNotDelivered ==
    [][/\ \A q \in QueueNames : \A e \in zsets[q] :
             Popped(q, e.member) /\ e.member.kind = "msg" => ~Expired(e.member)
       /\ \A q \in QueueNames :
             GetQueueLength({q}) /\ lastOp'.outcome = "length"
                => lastOp'.n <= Cardinality({e \in zsets[q] : e.member.kind = "msg"
                                                            => ~Expired(e.member)})]_vars

-----------------------------------------------------------------------------
(* Properties of the agents *)

\* the step is a turn of a listener, which dispatches one message
Dispatched == \E l \in DOMAIN listeners : Listen(l)

\* the callback is the agent's own Message coming back to it
OwnMessage(rec) == rec.message.from_agent = rec.agent

\* C8: when a Message whose from_agent is the receiving agent's id is
\* dispatched to that agent, on its own channel or on broadcast, no handler
\* and no fallback is invoked and the agent sends nothing; a dispatch that
\* reaches only the sender changes no queue and no agent.
C8_SelfEchoSuppressed ==
    [][Dispatched =>
          /\ \A i \in DOMAIN dispatch' :
                OwnMessage(dispatch'[i])
                   => dispatch'[i].handler = "none" /\ dispatch'[i].sends = <<>>
          /\ (\A i \in DOMAIN dispatch' : OwnMessage(dispatch'[i]))
                => zsets' = zsets /\ nextId' = nextId /\ agents' = agents]_vars

\* an agent has been dispatched a ping it sent to itself
C8_Witness ==
    \E i \in DOMAIN dispatch :
        /\ OwnMessage(dispatch[i])
        /\ dispatch[i].message.message_type = "ping"
        /\ dispatch[i].message.to_agent = dispatch[i].agent
        /\ dispatch[i].handler = "none"

\* C9: the default handler of a ping with payload P and correlation id c from
\* agent A sends exactly one Message: a pong to A with correlation id c whose
\* payload holds P under "original_payload"; the pong is stored once.
C9_PingAnsweredByOnePong ==
    \A i \in DOMAIN dispatch :
        dispatch[i].handler = "_handle_ping" =>
            /\ Len(dispatch[i].sends) = 1
            /\ LET ping == dispatch[i].message
                   pong == dispatch[i].sends[1]
               IN  /\ pong.message_type = "pong"
                   /\ pong.from_agent = dispatch[i].agent
                   /\ pong.to_agent = ping.from_agent
                   /\ pong.correlation_id = ping.correlation_id
                   /\ pong.payload.original_payload = <<ping.payload>>
                   /\ CopiesIn(pong, inserted) = 1

\* B has answered a ping of A that carries correlation id "c1"
C9_Witness ==
    \E i \in DOMAIN dispatch :
        /\ dispatch[i].handler = "_handle_ping"
        /\ dispatch[i].agent = "B" /\ dispatch[i].message.from_agent = "A"
        /\ dispatch[i].message.correlation_id = "c1"
        /\ \E e \in zsets[AgentChannel("A")] : e.member.message_type = "pong"

\* C10: an exception raised by a handler or by the fallback does not leave
\* _handle_message: the listener goes on, the agent's handler table is as it
\* was, and every Message dispatched to an agent that is not its own reaches
\* the handler registered for its type, whatever was raised before.
C10_HandlerErrorsContained ==
    [][Dispatched =>
          /\ \A i \in DOMAIN dispatch' :
                /\ ~dispatch'[i].propagated
                /\ ~OwnMessage(dispatch'[i])
                      => dispatch'[i].handler =
                            HandlerFor(agents[dispatch'[i].agent].handlers,
                                       dispatch'[i].message)
          /\ \A a \in Agents : agents'[a].handlers = agents[a].handlers
          /\ \A l \in DOMAIN listeners : listeners'[l].pc = listeners[l].pc]_vars

\* an agent whose handler raised on an earlier Message has handled a later
\* one without an error
C10_Witness ==
    \E i \in DOMAIN dispatch :
        /\ agents[dispatch[i].agent].errors > 0
        /\ dispatch[i].handler # "none"
        /\ ~dispatch[i].raised

-----------------------------------------------------------------------------
(* HandlerSpec: agent A sends to agent B while the application registers
   handlers on B: h1 for a type, and h2 for a type that has h1 *)

HandlerTypes == {"note", "ping"}

RegisterFirst == \E t \in HandlerTypes : RegisterMessageHandler("B", t, "h1")

RegisterSecond ==
    \E t \in HandlerTypes :
        /\ t \in DOMAIN agents["B"].handlers
        /\ agents["B"].handlers[t] = "h1"
        /\ RegisterMessageHandler("B", t, "h2")

SendToB == Send({"A"}, {"B"}, {"note", "ping", "pong"}, {5}, {<<>>}, {0})

HandlerNext ==
    \/ \E a \in Agents : Initialize(a)
    \/ RegisterFirst
    \/ RegisterSecond
    \/ SendToB
    \/ StartListening
    \/ \E l \in DOMAIN listeners : Listen(l)

HandlerSpec == Init /\ [][HandlerNext]_vars

\* the handler table that last-registration-wins gives an agent: the default
\* handlers, and for a type registered since the handler registered last
LastRegistered(a) ==
    [t \in DOMAIN DefaultHandlers \cup DOMAIN registered[a] |->
        IF t \in DOMAIN registered[a] THEN registered[a][t] ELSE DefaultHandlers[t]]

\* C11: register_message_handler is last-registration-wins: a registration
\* of handler h for a type makes h the handler of the type, a default type
\* included, and leaves the handlers of the other types as they were; a
\* callback of an agent that is dispatched a Message invokes the one handler
\* last registered for its type, and no handler registered before it.
C11_LastRegistrationWins ==
    [][/\ \A t \in HandlerTypes, h \in {"h1", "h2"} :
             RegisterMessageHandler("B", t, h)
                => /\ agents'["B"].handlers[t] = h
                   /\ \A u \in DOMAIN agents["B"].handlers \ {t} :
                         agents'["B"].handlers[u] = agents["B"].handlers[u]
       /\ Dispatched =>
             \A i \in DOMAIN dispatch' :
                dispatch'[i].handler \in
                   {"none", HandlerFor(LastRegistered(dispatch'[i].agent),
                                       dispatch'[i].message)}]_vars

\* B, which had h1 and then h2 registered for "ping", has been dispatched a
\* ping and has invoked h2, its other default handlers being in place
C11_Witness ==
    \E i \in DOMAIN dispatch :
        /\ dispatch[i].agent = "B" /\ dispatch[i].message.message_type = "ping"
        /\ dispatch[i].handler = "h2"
        /\ agents["B"].handlers["ping"] = "h2"
        /\ agents["B"].handlers["pong"] = "_handle_pong"

-----------------------------------------------------------------------------
(* LifecycleSpec: the application initializes the agents and shuts them down,
   any number of times, while agent A sends to agent B *)

\* agent.shutdown() called by the application
ShutdownAgent(a) ==
    LET r == Shutdown(World, a)
    IN  /\ r.w.nextId <= MaxSends
        /\ Commit(r.w)
        /\ UNCHANGED <<now, globalMq, redis, delivered, lastOp, subscribers, running,
                       dispatch, requested, logVars>>

SendNote == Send({"A"}, {"B"}, {"note"}, {5}, {<<>>}, {0})

LifecycleNext ==
    \/ \E a \in Agents : Initialize(a)
    \/ \E a \in Agents : ShutdownAgent(a)
    \/ SendNote
    \/ StartListening
    \/ \E l \in DOMAIN listeners : Listen(l)

LifecycleSpec == Init /\ [][LifecycleNext]_vars

\* the agent has been initialized and its last shutdown() has completed
Stopped(a) == agents[a].message_queue /\ ~agents[a].running

\* the agent_shutdown notices of agent a that have been stored
Notices(a) ==
    {m \in BagToSet(inserted) :
        m.kind = "msg" /\ m.message_type = "agent_shutdown" /\ m.from_agent = a}

\* C12: shutdown() is idempotent: a call on an agent whose shutdown() has
\* completed broadcasts no further agent_shutdown notice.
C12_ShutdownIdempotent ==
    [][\A a \in Agents :
          Stopped(a) /\ ShutdownAgent(a) => Notices(a)' = Notices(a)]_vars

\* C13: a Message published after an agent's shutdown() has completed
\* invokes no handler of that agent and draws no reply from it.
C13_NoDispatchAfterShutdown ==
    [][Dispatched =>
          \A i \in DOMAIN dispatch' :
             (/\ Stopped(dispatch'[i].agent)
              /\ Notices(dispatch'[i].agent) # {}
              /\ \A n \in Notices(dispatch'[i].agent) : dispatch'[i].message.id > n.id)
             => dispatch'[i].handler = "none" /\ dispatch'[i].sends = <<>>]_vars

\* C14: a Message published once is passed to the handler of an agent at
\* most once: in the dispatch of a Message no two callbacks invoke a handler
\* of the same agent.
C14_NoDuplicateToHandler ==
    \A i, j \in DOMAIN dispatch :
        (/\ dispatch[i].agent = dispatch[j].agent
         /\ dispatch[i].handler # "none" /\ dispatch[j].handler # "none")
        => i = j

-----------------------------------------------------------------------------
(* LiveSpec: agent A sends to agent B once both have completed initialize();
   the application may call start_listening, and a listener that has a
   message to take takes it *)

SendWhenReady ==
    /\ agents["A"].is_active /\ agents["B"].is_active
    /\ SendNote

LiveNext ==
    \/ \E a \in Agents : Initialize(a)
    \/ SendWhenReady
    \/ StartListening
    \/ \E l \in DOMAIN listeners : Listen(l)

LiveSpec ==
    /\ Init /\ [][LiveNext]_vars
    /\ WF_vars(StartListening)
    /\ WF_vars(Dispatched)

\* send_message has just returned True for the Message with this id, sent to
\* B with A and B initialized
SentToB(id) ==
    /\ lastOp.op = "send_message" /\ lastOp.outcome = "true"
    /\ lastOp.entry.id = id /\ lastOp.entry.to_agent = "B"

\* the Message with this id has been passed to a handler of B
PassedToB(id) ==
    \E i \in DOMAIN dispatch :
        /\ dispatch[i].message.id = id
        /\ dispatch[i].agent = "B" /\ dispatch[i].handler # "none"

\* C15: once A and B have completed initialize(), a Message that A sends to
\* B is eventually passed to B's handler for its type.
C15_LiveDelivery ==
    \A id \in 1..MaxSends : SentToB(id) ~> PassedToB(id)

-----------------------------------------------------------------------------
(* Properties of the task queues *)

\* the step is a call of add_task_to_queue on queue q that returns True
Added(q) == AddTask /\ lastOp'.outcome = "true" /\ lastOp'.queue = q

\* C16: tasks are conserved: every add_task_to_queue that returns True adds
\* one entry to the queue, whatever the payload, every get_task_from_queue on
\* a queue that holds entries returns one of them and removes it, and on a
\* queue without entries it returns empty; so the length is the number of
\* adds less the number of pops.
C16_TaskConservation ==
    [][\A q \in TaskQueueNames :
          /\ Added(q) => ZCard(zsets'[q]) = ZCard(zsets[q]) + 1
          /\ \A c \in Clients :
                redis /\ GetTask(c) =>
                   IF zsets[q] = {}
                   THEN lastOp'.outcome = "none" /\ zsets'[q] = {}
                   ELSE /\ lastOp'.outcome = "entry"
                        /\ lastOp'.entry \in Members(zsets[q])
                        /\ ZCard(zsets'[q]) = ZCard(zsets[q]) - 1]_vars

\* C17 as claimed: get_task_from_queue on a queue without entries returns
\* empty and does not raise.
C17_EmptyQueueReturnsNone ==
    [][\A q \in TaskQueueNames, c \in Clients :
          zsets[q] = {} /\ GetTask(c) => lastOp'.outcome = "none"]_vars

\* C17 as amended: on a connected broker get_task_from_queue on a queue
\* without entries returns empty and does not raise; on a broker that is not
\* connected it raises RuntimeError.
C17_EmptyQueueNoneIfConnected ==
    [][\A q \in TaskQueueNames, c \in Clients :
          zsets[q] = {} /\ GetTask(c)
             => lastOp'.outcome = (IF redis THEN "none" ELSE "RuntimeError")]_vars

\* get_task_from_queue has returned empty on a queue that was drained
C17_Witness ==
    /\ lastOp.op = "get_task_from_queue" /\ lastOp.outcome = "none"
    /\ zsets[lastOp.queue] = {}
    /\ TaskAdds > 0

\* C18: get_task_from_queue waits up to its timeout for an entry: when a
\* call on a queue has returned empty, no task was added to the queue within
\* the timeout; the time since the call is at most the time since the start.
C18_WaitsForTask ==
    [][\A q \in TaskQueueNames :
          (/\ lastOp.op = "get_task_from_queue" /\ lastOp.queue = q
           /\ lastOp.outcome = "none"
           /\ now - StartTime < DefaultTimeout * TicksPerSecond)
          => ~Added(q)]_vars

-----------------------------------------------------------------------------
(* The history of an agent: the Redis list under "history:<agent_id>" *)

\* the dictionary store_message_in_history serializes
HistoryEntry(message) ==
    [id |-> message.id, from_agent |-> message.from_agent,
     to_agent |-> message.to_agent, message_type |-> message.message_type,
     payload |-> message.payload, created_at |-> message.created_at,
     correlation_id |-> message.correlation_id]

\* LPUSH key element
LPush(list, element) == <<element>> \o list

\* LTRIM key 0 stop
LTrim(list, stop) ==
    IF Len(list) <= stop + 1 THEN list ELSE SubSeq(list, 1, stop + 1)

\* LRANGE key 0 stop: a negative stop counts from the end of the list, -1
\* being its last element
LRange(list, stop) ==
    LET end == IF stop < 0 THEN Len(list) + stop ELSE stop
    IN  IF end < 0 THEN <<>>
        ELSE IF Len(list) <= end + 1 THEN list ELSE SubSeq(list, 1, end + 1)

\* store_message_in_history(agent_id, message) up to the return of LPUSH, for
\* a Message the caller has constructed: nothing happens without a
\* connection, and an error of the store ends the call. The Message takes
\* an id when it enters the list; max bounds the ids.
HistoryPush(c, agent_ids, max) ==
    \E agent_id \in agent_ids :
        LET message == NewMessage(nextId + 1, agent_id, None, "note",
                                  Payload("x", None, None, <<>>), DefaultPriority, now,
                                  NoExpiry, None)
        IN  /\ recording[c] = None
            /\ nextId < max
            /\ IF redis /\ storeUp
               THEN /\ nextId' = nextId + 1
                    /\ history' = [history EXCEPT
                                      ![agent_id] = LPush(@, HistoryEntry(message))]
                    /\ recording' = [recording EXCEPT ![c] = agent_id]
               ELSE UNCHANGED <<nextId, history, recording>>
            /\ UNCHANGED <<now, globalMq, redis, storeUp, zsets, deadline, inserted,
                           delivered, lastOp, agentVars, registered>>

\* the rest of store_message_in_history: LTRIM, which an error of the store
\* leaves undone
HistoryTrim(c) ==
    /\ recording[c] # None
    /\ recording' = [recording EXCEPT ![c] = None]
    /\ history' = IF storeUp
                  THEN [history EXCEPT ![recording[c]] = LTrim(@, HistoryStop)]
                  ELSE history
    /\ UNCHANGED <<now, globalMq, redis, storeUp, zsets, deadline, nextId, inserted,
                   delivered, lastOp, agentVars, registered>>

\* get_message_history(agent_id, limit); n is the number of entries returned
GetMessageHistory(agent_ids, limits) ==
    \E agent_id \in agent_ids, limit \in limits :
        /\ lastOp' = IF ~redis
                     THEN Op("get_message_history", NoChannel, "RuntimeError", NoEntry, 0)
                     ELSE Op("get_message_history", NoChannel, "length", NoEntry,
                             IF storeUp THEN Len(LRange(history[agent_id], limit - 1))
                             ELSE 0)
        /\ UNCHANGED <<now, globalMq, redis, storeUp, zsets, deadline, nextId, inserted,
                       delivered, agentVars, logVars>>

-----------------------------------------------------------------------------
(* AuditSpec: Messages of agent A are published while a process records
   Messages in the histories of the agents and reads them *)

PublishFromA == Publish({"A"}, Agents, {5}, {<<>>}, {NoChannel}, {"none"})

RecordAny == HistoryPush("c1", Agents, MaxMsgs)

Trim == HistoryTrim("c1")

ReadAny == GetMessageHistory(Agents, {0, 1, DefaultLimit})

AuditNext ==
    \/ GetMessageQueue
    \/ PublishFromA
    \/ RecordAny
    \/ Trim
    \/ ReadAny

AuditSpec == Init /\ [][AuditNext]_vars

-----------------------------------------------------------------------------
(* LedgerSpec: one process records Messages in the history of agent A, more
   of them than the history keeps, and reads it *)

Record == HistoryPush("c1", {"A"}, MaxRecords)

ReadHistory == GetMessageHistory({"A"}, {1})

LedgerNext ==
    \/ GetMessageQueue
    \/ Record
    \/ Trim
    \/ ReadHistory

LedgerSpec == Init /\ [][LedgerNext]_vars

\* C19: when publish_message returns True for a Message, the history of its
\* sender or of its addressee holds the projection of the Message.
C19_PublishRecordsHistory ==
    [][redis /\ Published(lastOp'.entry) /\ lastOp'.outcome = "true"
          => \E a \in Agents : \E i \in DOMAIN history'[a] :
                history'[a][i] = HistoryEntry(lastOp'.entry)]_vars

\* C20: the history of an agent holds at most 1000 entries in every state,
\* those between the two commands of a record included, and newest first.
C20_HistoryBounded ==
    \A a \in Agents :
        /\ Len(history[a]) <= HistoryStop + 1
        /\ \A i \in 1..(Len(history[a]) - 1) :
              history[a][i].id > history[a][i + 1].id

\* C21: for a process that is connected, get_message_history(agent_id, limit)
\* returns at most limit entries, for every limit >= 0, and does not raise.
C21_HistoryAtMostLimit ==
    [][\A a \in Agents, limit \in {0, 1, DefaultLimit} :
          redis /\ GetMessageHistory({a}, {limit})
              => /\ lastOp'.outcome = "length"
                 /\ lastOp'.n <= limit]_vars

-----------------------------------------------------------------------------
(* FanoutSpec: an application subscribes callbacks of its own to the channel
   of agent A, then listens; Messages and data that is no Message are
   published on the channel *)

SubscribeAny == Subscribe({AgentChannel("A")}, Callbacks)

PublishToA == Publish({"B"}, {"A"}, {5}, {<<>>}, {NoChannel}, {"none"})

PublishGarbage == PublishRaw({AgentChannel("A")})

FanoutNext ==
    \/ GetMessageQueue
    \/ SubscribeAny
    \/ StartListening
    \/ PublishToA
    \/ PublishGarbage
    \/ \E l \in DOMAIN listeners : Listen(l)

FanoutSpec == Init /\ [][FanoutNext]_vars

\* the payload the listener takes next
NextItem(l) == Head(listeners[l].inbox)

\* C22: every call of subscribe_to_channel adds one callback to the channel,
\* and a Message received on the channel is passed once to each callback of
\* the channel, in the order of the subscriptions, whether the callbacks
\* before it have returned or raised.
C22_AllCallbacksInvoked ==
    [][/\ \A ch \in Channels, cb \in Callbacks :
              ch \in DOMAIN subscribers /\ Subscribe({ch}, {cb})
                  => subscribers'[ch] = Append(subscribers[ch], cb)
       /\ \A l \in DOMAIN listeners :
              Listen(l) /\ NextItem(l).data # Garbage
                  => LET callbacks == subscribers[NextItem(l).channel]
                     IN  /\ Len(dispatch') = Len(callbacks)
                         /\ \A i \in DOMAIN callbacks :
                                /\ dispatch'[i].agent = callbacks[i]
                                /\ dispatch'[i].message = NextItem(l).data]_vars

\* a Message went to three callbacks, two of them the same function, after
\* the first of them had raised
C22_Witness ==
    /\ Len(dispatch) = MaxCallbacks
    /\ dispatch[1].raised /\ dispatch[1].propagated
    /\ dispatch[1].agent = dispatch[2].agent
    /\ dispatch[3].agent # dispatch[1].agent

-----------------------------------------------------------------------------
(* HangSpec: as FanoutSpec without the malformed data, with callbacks that
   may never return *)

ListenSlow == \E l \in DOMAIN listeners : ListenWith(l, Outcomes)

HangNext ==
    \/ GetMessageQueue
    \/ SubscribeAny
    \/ StartListening
    \/ PublishToA
    \/ ListenSlow

HangSpec == Init /\ [][HangNext]_vars

\* C29: a callback that never returns keeps neither the other callbacks of
\* the channel from receiving the Message nor the listener from polling again.
C29_FanoutConcurrent ==
    [][\A l \in DOMAIN listeners :
          ListenWith(l, Outcomes)
              => /\ Len(dispatch') = Len(subscribers[NextItem(l).channel])
                 /\ listeners'[l].pc = "polling"]_vars

\* C30: data that is not a Message is dropped by the listener: no callback
\* is called, the data leaves the connection for good, and the listener polls
\* again with its subscriptions, the queues and the agents as they were.
C30_MalformedDropped ==
    [][\A l \in DOMAIN listeners :
          Listen(l) /\ NextItem(l).data = Garbage
              => /\ dispatch' = <<>>
                 /\ listeners'[l].inbox = Tail(listeners[l].inbox)
                 /\ listeners'[l].pc = "polling"
                 /\ listeners'[l].dropped = listeners[l].dropped + 1
                 /\ running'
                 /\ UNCHANGED <<zsets, agents, subscribers>>]_vars

\* a Message was passed to a callback after the listener had dropped data
C30_Witness ==
    /\ \E l \in DOMAIN listeners : listeners[l].dropped > 0
    /\ dispatch # <<>>
    /\ dispatch[1].message.kind = "msg"

-----------------------------------------------------------------------------
(* OutageSpec: agent A is initialized and agent B is not; both send and
   broadcast while the store goes away and comes back and single commands
   fail *)

\* what a call of the application on an agent gave: the bool returned, or
\* the exception
Outcome(r) == IF r.raised THEN "raise" ELSE IF r.ok THEN "true" ELSE "false"

\* agent.send_message(to_agent, "note", payload, priority) called by the
\* application; cut is the command of the store that fails in the call
SendWith(senders, tos, priorities, cuts) ==
    \E a \in senders, to \in tos, priority \in priorities, cut \in cuts :
        LET r == SendMessage(World, a, to, "note", Payload("x", None, None, <<>>),
                             priority, None, <<>>, 0, cut)
        IN  /\ nextId < MaxSends
            /\ lastOp' = Op("send_message", AgentChannel(to), Outcome(r),
                            IF r.sends = <<>> THEN NoEntry ELSE r.sends[1], 0)
            /\ Commit(r.w)
            /\ UNCHANGED <<now, globalMq, redis, delivered, subscribers, running, dispatch,
                           requested, logVars>>

\* agent.send_broadcast_message("note", payload) called by the application
BroadcastWith(senders, cuts) ==
    \E a \in senders, cut \in cuts :
        LET r == SendBroadcastMessage(World, a, "note", Payload("x", None, None, <<>>),
                                      None, cut)
        IN  /\ nextId < MaxSends
            /\ lastOp' = Op("send_broadcast_message", Broadcast, Outcome(r),
                            IF r.sends = <<>> THEN NoEntry ELSE r.sends[1], 0)
            /\ Commit(r.w)
            /\ UNCHANGED <<now, globalMq, redis, delivered, subscribers, running, dispatch,
                           requested, logVars>>

SendFrom(a) == SendWith({a}, Agents, {0, DefaultPriority}, Cuts)

BroadcastFrom(a) == BroadcastWith({a}, Cuts)

OutageNext ==
    \/ StoreFlip
    \/ Initialize("A")
    \/ \E a \in Agents : SendFrom(a)
    \/ \E a \in Agents : BroadcastFrom(a)
    \/ StartListening
    \/ \E l \in DOMAIN listeners : Listen(l)

OutageSpec == Init /\ [][OutageNext]_vars

\* C23: send_message and send_broadcast_message return a bool and never
\* raise; they return False when the agent has no broker or the store is
\* unreachable; and the call leaves the agent, its handlers and the
\* subscriptions as they were.
C23_SendNeverRaises ==
    [][\A a \in Agents :
          SendFrom(a) \/ BroadcastFrom(a)
              => /\ lastOp'.outcome \in {"true", "false"}
                 /\ (~agents[a].message_queue \/ ~storeUp) => lastOp'.outcome = "false"
                 /\ UNCHANGED <<agents, subscribers, running>>]_vars

\* a send of agent A has returned True after a Message of A was not stored,
\* and one has returned False for an agent without a broker
C23_Witness ==
    /\ lastOp.op \in {"send_message", "send_broadcast_message"}
    /\ lastOp.outcome = "true"
    /\ lastOp.entry.id = nextId
    /\ nextId > BagCardinality(inserted)
    /\ ~agents["B"].message_queue

-----------------------------------------------------------------------------
(* GhostSpec: callbacks are subscribed to the channel of agent A and a
   listener runs, while Messages are published for A and for B, an agent
   that does not exist; a client counts and pops the queue of B *)

PublishToAny == Publish({"A"}, Agents, {1, 9}, {<<>>}, {NoChannel}, {"none"})

CountGhost == GetQueueLength({AgentChannel("B")})

PopGhost == GetMessageFromQueue("c1", {AgentChannel("B")})

GhostNext ==
    \/ GetMessageQueue
    \/ SubscribeAny
    \/ StartListening
    \/ PublishToAny
    \/ CountGhost
    \/ PopGhost
    \/ \E l \in DOMAIN listeners : Listen(l)

GhostSpec == Init /\ [][GhostNext]_vars

\* nothing is subscribed to the channel, in the broker or at the store
NoSubscriber(ch) ==
    /\ ch \notin DOMAIN subscribers
    /\ \A l \in DOMAIN listeners : ch \notin listeners[l].chans

\* C24: on a connected broker with the store reachable, a publish to a
\* channel without subscriber returns True and adds the Message to the queue
\* of the channel; get_queue_length then counts the entries of the queue and
\* get_message_from_queue returns one of them.
C24_StoredWithoutSubscriber ==
    [][\A ch \in Channels :
          redis /\ storeUp /\ NoSubscriber(ch)
              => /\ Published(lastOp'.entry) /\ lastOp'.queue = ch
                    => /\ lastOp'.outcome = "true"
                       /\ lastOp'.entry \in Members(zsets'[ch])
                       /\ ZCard(zsets'[ch]) = ZCard(zsets[ch]) + 1
                 /\ GetQueueLength({ch})
                    => lastOp'.outcome = "length" /\ lastOp'.n = ZCard(zsets[ch])
                 /\ GetMessageFromQueue("c1", {ch}) /\ zsets[ch] # {}
                    => /\ lastOp'.outcome = "entry"
                       /\ lastOp'.entry \in Members(zsets[ch])]_vars

\* a Message for the agent that does not exist was published and then
\* popped from the queue of its channel
C24_Witness ==
    /\ lastOp.op = "get_message_from_queue" /\ lastOp.outcome = "entry"
    /\ lastOp.queue = AgentChannel("B") /\ lastOp.entry.to_agent = "B"
    /\ NoSubscriber(AgentChannel("B"))
    /\ ~agents["B"].message_queue

-----------------------------------------------------------------------------
(* AgingSpec: Messages of two priorities are published to one queue, and the
   queue is left alone for some days before the next call *)

\* one second more than ScoreFactor seconds (11 days 14 hours), in ticks
AgeTicks == (ScoreFactor + 1) * TicksPerSecond

\* the process and the store run for AgeTicks with no call on the broker
Sleep ==
    /\ now < StartTime + AgeTicks
    /\ now' = now + AgeTicks
    /\ zsets' = [q \in QueueNames |->
                    IF deadline[q] # NoTTL /\ deadline[q] <= now' THEN {} ELSE zsets[q]]
    /\ deadline' = [q \in QueueNames |->
                    IF deadline[q] # NoTTL /\ deadline[q] <= now' THEN NoTTL
                    ELSE deadline[q]]
    /\ UNCHANGED <<globalMq, redis, storeUp, nextId, inserted, delivered, lastOp>>
    /\ UNCHANGED <<agentVars, logVars>>

PublishUrgent == Publish({"A"}, {"A"}, {1, 2}, {<<>>}, {NoChannel}, {"none"})

AgingNext ==
    \/ GetMessageQueue
    \/ Sleep
    \/ PublishUrgent
    \/ \E c \in Clients : GetMessage(c)

AgingSpec == Init /\ [][AgingNext]_vars

\* C25: of two Messages in one queue, the one with the lower priority number
\* is popped first, whatever their creation times: no pop returns a Message
\* while the queue holds one of a lower priority number.
C25_PriorityDominates ==
    [][\A q \in QueueNames : \A e, f \in zsets[q] :
          (/\ e.member.kind = "msg" /\ f.member.kind = "msg"
           /\ f.member.priority < e.member.priority)
              => /\ f.score < e.score
                 /\ ~Popped(q, e.member)]_vars

\* C26: the lifecycle of an agent only moves forward: once shutdown() has run
\* on an initialized agent, no step makes the agent active or running again.
C26_LifecycleForward ==
    [][\A a \in Agents :
          Stopped(a) => ~agents'[a].is_active /\ ~agents'[a].running]_vars

\* C27: expiry is per entry: as time passes, a Message leaves its queue only
\* when its own expires_at has passed; a Message that carries no expires_at,
\* or a later one, stays, whatever else was published to the queue.
C27_ExpiryPerEntry ==
    [][Tick => \A q \in QueueNames : \A e \in zsets[q] :
                  (/\ e.member.kind = "msg"
                   /\ e.member.expires_at = NoExpiry \/ e.member.expires_at > now')
                      => e \in zsets'[q]]_vars

\* C28: a publish whose live push fails still stores the Message: on a
\* connected broker with the store reachable, a publish_message in which
\* PUBLISH raises adds the Message to the durable queue of its channel.
C28_DurableWriteAlways ==
    [][(/\ redis /\ storeUp
        /\ Publish({"", "A"}, {"A"}, {0, 5, 11}, {<<>>, <<-1>>, <<1>>}, {NoChannel},
                   {"publish"})
        /\ Published(lastOp'.entry))
          => Written(lastOp'.entry)]_vars

-----------------------------------------------------------------------------
(* StopSpec: FanoutSpec without the malformed data, with a listener that is
   stopped *)

StopNext ==
    \/ GetMessageQueue
    \/ SubscribeAny
    \/ StartListening
    \/ StopListening
    \/ PublishToA
    \/ \E l \in DOMAIN listeners : Listen(l)
    \/ \E l \in DOMAIN listeners : Exit(l)

StopSpec == Init /\ [][StopNext]_vars

\* C31: after stop_listening the listener delivers no message received
\* later: a Message published after the call, with no call on the broker
\* since, is passed to no callback.
C31_NoDeliveryAfterStop ==
    [][\A l \in DOMAIN listeners :
          (/\ ~running
           /\ lastOp.op = "publish" /\ lastOp.outcome = "true"
           /\ Listen(l) /\ NextItem(l).data = lastOp.entry)
              => dispatch' = <<>>]_vars

-----------------------------------------------------------------------------
(* AddressSpec: two agents and a listener; the agents send to each other and
   a client publishes Messages with and without to_agent, naming no channel *)

SendEither == Send(Agents, Agents, {"note"}, {5}, {<<>>}, {0})

PublishAddressed == Publish({"A"}, {"B", None}, {5}, {<<>>}, {NoChannel}, {"none"})

AddressNext ==
    \/ \E a \in Agents : Initialize(a)
    \/ SendEither
    \/ PublishAddressed
    \/ StartListening
    \/ \E l \in DOMAIN listeners : Listen(l)

AddressSpec == Init /\ [][AddressNext]_vars

\* the channel of the addressee of a Message
ChannelOf(m) == IF m.to_agent = None THEN Broadcast ELSE AgentChannel(m.to_agent)

\* C32: a Message sent to agent B, or published with to_agent B and no
\* channel, is stored in the queue of agent:B only, arrives on agent:B only
\* and is passed to callbacks of B only; a Message without to_agent is
\* stored and arrives on broadcast only; publishing changes no subscription.
C32_AddressingExact ==
    [][/\ \A q \in QueueNames : \A e \in zsets'[q] :
              e.member.kind = "msg" => q = ChannelOf(e.member)
       /\ \A l \in DOMAIN listeners' : \A i \in DOMAIN listeners'[l].inbox :
              listeners'[l].inbox[i].channel = ChannelOf(listeners'[l].inbox[i].data)
       /\ \A i \in DOMAIN dispatch' :
              dispatch'[i].message.to_agent \in {None, dispatch'[i].agent}
       /\ lastOp' # lastOp /\ lastOp'.op \in {"publish", "send_message"}
              => subscribers' = subscribers]_vars

\* a Message for B is in the queue of agent:B and was passed to B, and a
\* Message without to_agent is in the queue of broadcast
C32_Witness ==
    /\ \E e \in zsets[AgentChannel("B")] : e.member.to_agent = "B"
    /\ \E e \in zsets[Broadcast] :
           e.member.to_agent = None /\ e.member.message_type = "note"
    /\ \E i \in DOMAIN dispatch :
           dispatch[i].agent = "B" /\ dispatch[i].message.to_agent = "B"

\* the callbacks of a dispatch that ran the default handler of a ping
PingAnswers(log) == {i \in DOMAIN log : log[i].handler = "_handle_ping"}

\* C33: the default exchange of a ping ends with the pong: the default
\* handlers of pong and heartbeat send nothing, the default handler of a ping
\* sends one pong to the sender of the ping, and a dispatch sends nothing
\* else; a ping passed to an agent that has one callback on its channel
\* draws exactly one Message.
C33_PingPongTerminates ==
    [][\A l \in DOMAIN listeners :
          Listen(l)
              => /\ \A i \in DOMAIN dispatch' :
                        /\ dispatch'[i].handler \in {"_handle_pong", "_handle_heartbeat"}
                              => dispatch'[i].sends = <<>>
                        /\ dispatch'[i].handler = "_handle_ping"
                              => /\ Len(dispatch'[i].sends) = 1
                                 /\ dispatch'[i].sends[1].message_type = "pong"
                                 /\ dispatch'[i].sends[1].to_agent =
                                        dispatch'[i].message.from_agent
                 /\ nextId' = nextId + Cardinality(PingAnswers(dispatch'))
                 /\ Len(subscribers[NextItem(l).channel]) = 1
                        => Cardinality(PingAnswers(dispatch')) <= 1]_vars

\* the pong of B for a ping of A has been passed to A, which sent nothing
C33_Witness ==
    \E i \in DOMAIN dispatch :
        /\ dispatch[i].handler = "_handle_pong"
        /\ dispatch[i].agent = "A" /\ dispatch[i].message.from_agent = "B"
        /\ dispatch[i].message.payload.original_payload # <<>>
        /\ dispatch[i].sends = <<>>
        /\ nextId = MaxSends

\* how many times the callback is registered on the channel
Registrations(subs, channel, callback) ==
    IF channel \in DOMAIN subs
    THEN Cardinality({i \in DOMAIN subs[channel] : subs[channel][i] = callback})
    ELSE 0

\* C34: initialize() of an agent that was never initialized, when it
\* returns, leaves the agent active with its callback registered once on
\* agent:<id> and once on broadcast, and has built exactly one Message, a
\* heartbeat on broadcast, which is in the durable queue when the store is
\* up, next to the two registrations.
C34_InitializeOnce ==
    [][\A a \in Agents :
          (Initialize(a) /\ ~agents[a].message_queue /\ (globalMq \/ storeUp))
              => /\ agents'[a].message_queue
                 /\ agents'[a].is_active /\ agents'[a].running
                 /\ Registrations(subscribers', AgentChannel(a), a) = 1
                 /\ Registrations(subscribers', Broadcast, a) = 1
                 /\ nextId' = nextId + 1
                 /\ storeUp
                        => \E e \in zsets'[Broadcast] :
                               /\ e.member.id = nextId'
                               /\ e.member.message_type = "heartbeat"
                               /\ e.member.from_agent = a
                               /\ e.member.to_agent = None
                 /\ \A q \in QueueNames \ {Broadcast} : zsets'[q] = zsets[q]]_vars

\* A is initialized and its heartbeat is the only Message built so far
C34_Witness ==
    /\ agents["A"].is_active
    /\ Registrations(subscribers, Broadcast, "A") = 1
    /\ nextId = 1
    /\ \E e \in zsets[Broadcast] : e.member.message_type = "heartbeat"

-----------------------------------------------------------------------------
(* ShutdownSpec: initialized agents send each other "shutdown" Messages,
   directly and on broadcast, naming either agent as the target *)

\* agent.send_message(to, "shutdown", {"target_agent": target}) or
\* agent.send_broadcast_message("shutdown", {"target_agent": target}) called
\* by the application
SendShutdown(a) ==
    \E to \in Agents \cup {None}, target \in Agents :
        LET payload == Payload(None, target, None, <<>>)
            r == IF to = None
                 THEN SendBroadcastMessage(World, a, "shutdown", payload, None, "none")
                 ELSE SendMessage(World, a, to, "shutdown", payload, DefaultPriority,
                                  None, <<>>, 0, "none")
        IN  /\ nextId < MaxSends
            /\ agents[a].message_queue
            /\ lastOp' = Op(IF to = None THEN "send_broadcast_message" ELSE "send_message",
                            IF to = None THEN Broadcast ELSE AgentChannel(to),
                            IF r.ok THEN "true" ELSE "false", r.sends[1], 0)
            /\ Commit(r.w)
            /\ UNCHANGED <<now, globalMq, redis, delivered, subscribers, running, dispatch,
                           requested, logVars>>

ShutdownNext ==
    \/ \E a \in Agents : Initialize(a)
    \/ \E a \in Agents : SendShutdown(a)
    \/ StartListening
    \/ \E l \in DOMAIN listeners : Listen(l)

ShutdownSpec == Init /\ [][ShutdownNext]_vars

\* the callbacks of a dispatch in which an agent was named as the target of
\* a "shutdown" Message of another agent
Targets(log) ==
    {i \in DOMAIN log : /\ log[i].handler = "_handle_shutdown"
                        /\ log[i].message.payload.target_agent = log[i].agent}

\* C35: an agent passed a "shutdown" Message of another agent, sent to it or
\* broadcast, shuts down exactly when the payload names it as target_agent:
\* then it is inactive afterwards and has broadcast one agent_shutdown;
\* otherwise it sends nothing and is left as it was. A dispatch builds no
\* other Message.
C35_ShutdownOnlyTarget ==
    [][\A l \in DOMAIN listeners :
          Listen(l)
              => /\ \A i \in DOMAIN dispatch' :
                        dispatch'[i].message.message_type = "shutdown"
                            => IF i \in Targets(dispatch')
                               THEN /\ ~agents'[dispatch'[i].agent].is_active
                                    /\ ~agents'[dispatch'[i].agent].running
                                    /\ Len(dispatch'[i].sends) = 1
                                    /\ dispatch'[i].sends[1].message_type = "agent_shutdown"
                                    /\ dispatch'[i].sends[1].from_agent = dispatch'[i].agent
                                    /\ dispatch'[i].sends[1].to_agent = None
                               ELSE /\ dispatch'[i].sends = <<>>
                                    /\ agents'[dispatch'[i].agent] = agents[dispatch'[i].agent]
                 /\ NextItem(l).data.message_type = "shutdown"
                        => nextId' = nextId + Cardinality(Targets(dispatch'))]_vars

\* B has shut down on a broadcast "shutdown" of A that names B, and A is
\* still active
C35_Witness ==
    /\ \E i \in DOMAIN dispatch :
           /\ dispatch[i].agent = "B" /\ dispatch[i].message.from_agent = "A"
           /\ dispatch[i].message.to_agent = None
           /\ i \in Targets(dispatch)
    /\ ~agents["B"].is_active /\ agents["B"].message_queue
    /\ agents["A"].is_active
    /\ \E e \in zsets[Broadcast] : e.member.message_type = "agent_shutdown"

\* C36: while a loop polls, a Message that send_message has published on a
\* channel that has a callback reaches a pub/sub connection of the broker,
\* whenever the callback was registered.
C36_ListenerFollowsSubscriptions ==
    [][(/\ lastOp' # lastOp
        /\ lastOp'.op = "send_message" /\ lastOp'.outcome = "true"
        /\ lastOp'.queue \in DOMAIN subscribers
        /\ \E l \in DOMAIN listeners : listeners[l].pc = "polling")
           => \E l \in DOMAIN listeners :
                  listeners'[l].inbox =
                      Append(listeners[l].inbox,
                             [channel |-> lastOp'.queue, data |-> lastOp'.entry])]_vars

\* the loops of start_listening that are in their while loop
Polling == {l \in DOMAIN listeners : listeners[l].pc \in {"polling", "blocked"}}

\* C37: at most one loop of start_listening is active for the broker, and
\* self.running is true exactly while a loop is active.
C37_OneLoopWhileRunning ==
    /\ Cardinality(Polling) <= 1
    /\ running <=> Polling # {}

-----------------------------------------------------------------------------
(* MixSpec: a task queue that has the name of a channel: the application
   publishes Messages to agent A and keeps tasks in the task queue "agent:A" *)

AddTaskOnChannel == AddTaskToQueue({AgentChannel("A")}, {1, 9})

GetTaskOnChannel(c) == GetTaskFromQueue(c, {AgentChannel("A")})

MixNext ==
    \/ GetMessageQueue
    \/ PublishPlain
    \/ AddTaskOnChannel
    \/ \E c \in Clients : GetMessage(c)
    \/ \E c \in Clients : GetTaskOnChannel(c)
    \/ QueueLength

MixSpec == Init /\ [][MixNext]_vars

\* C38: task queues and the durable queues of channels are distinct stores,
\* whatever their names: get_task_from_queue returns only tasks,
\* get_message_from_queue returns only Messages, and get_queue_length of a
\* task queue counts only the tasks added to it.
C38_DistinctStores ==
    [][/\ (lastOp'.op = "get_task_from_queue" /\ lastOp'.outcome = "entry")
              => lastOp'.entry.kind = "task"
       /\ (lastOp'.op = "get_message_from_queue" /\ lastOp'.outcome = "entry")
              => lastOp'.entry.kind = "msg"
       /\ (lastOp'.op = "get_queue_length" /\ lastOp'.outcome = "length")
              => lastOp'.n = Cardinality({e \in zsets[lastOp'.queue] :
                                             e.member.kind = "task"})]_vars

\* C39: get_message_queue() hands out only a broker whose connect() has
\* succeeded: the call that follows one whose connect() raised does not
\* return the broker that call left behind.
C39_OnlyConnectedBroker ==
    [][(/\ lastOp.op = "get_message_queue" /\ lastOp.outcome = "raise"
        /\ GetMessageQueue)
           => lastOp'.outcome # "ok"]_vars

-----------------------------------------------------------------------------
(* TestSpec: the agents are TestAgents (scripts/test_agent.py); once
   initialized, A sends B Messages of the types the test scripts use, and A
   shuts down, which broadcasts its agent_shutdown *)

\* the handlers of a TestAgent after __init__
TestHandlers ==
    [t \in DOMAIN DefaultHandlers \cup {"test_task", "echo"} |->
        CASE t = "test_task" -> "_handle_test_task"
          [] t = "echo" -> "_handle_echo"
          [] OTHER -> DefaultHandlers[t]]

\* TestAgent(agent_id)
NewTestAgent(a) ==
    /\ agents[a].agent_type # "test"
    /\ agents' = [agents EXCEPT ![a].agent_type = "test", ![a].handlers = TestHandlers]
    /\ UNCHANGED <<now, globalMq, redis, storeUp, zsets, deadline, nextId, inserted,
                   delivered, lastOp, subscribers, running, listeners, dispatch, requested,
                   logVars>>

\* agent.initialize() of a TestAgent
InitializeTest(a) == agents[a].agent_type = "test" /\ Initialize(a)

SendTest == Send({"A"}, {"B"}, {"note", "echo", "test_task"}, {5}, {<<>>}, {0})

ListenTest(l) == ListenUpTo(l, {"return", "raise"}, MaxTestSends)

TestNext ==
    \/ \E a \in Agents : NewTestAgent(a)
    \/ \E a \in Agents : InitializeTest(a)
    \/ SendTest
    \/ ShutdownAgent("A")
    \/ StartListening
    \/ \E l \in DOMAIN listeners : ListenTest(l)

TestSpec == Init /\ [][TestNext]_vars

\* C40: between two initialized TestAgents every exchange ends: a
\* "message_ack", which is the answer to a Message no handler is registered
\* for, is itself answered by nothing, so the answers to one Message are
\* finitely many.
C40_ExchangeTerminates ==
    [][\A l \in DOMAIN listeners :
          ListenTest(l)
              => \A i \in DOMAIN dispatch' :
                     dispatch'[i].message.message_type = "message_ack"
                         => dispatch'[i].sends = <<>>]_vars

====
